---- MODULE Spec2Model ----
(***************************************************************************)
(* jsx-autodocs: the type-tree builder (getTypeTree, in its three          *)
(* revisions kept in the source tree) and the default-value synthesizer    *)
(* (typeTreeTransformer), over a finite host type graph.                   *)
(*                                                                         *)
(*   "getTypes"  src/src/type-tree/getTypes.ts:137-370  (Map-keyed memo)   *)
(*   "keyed"     src/src/type-tree/getTypes.ts:534-774  (Set<string>)      *)
(*   "index"     src/src/type-tree/index.ts:113-350     (Set<ts.Type>)     *)
(***************************************************************************)
EXTENDS Integers, Sequences, FiniteSets, TLC

(***************************************************************************)
(* Bounds of the model.                                                    *)
(***************************************************************************)
\* the option values a caller may pass: 0..MaxBudget for each budget
MaxBudget == 2
\* frames the JavaScript call stack holds before a call raises RangeError
StackLimit == 7
\* getTypeInfoAtPosition calls in one behaviour
MaxBuilds == 2

(***************************************************************************)
(* Program constants.                                                      *)
(***************************************************************************)
primitiveTypesOrder == <<"string", "number", "bigint", "boolean", "symbol">>
falsyTypesOrder == <<"null", "undefined">>
excludedProps == {"children"}
Impls == {"getTypes", "keyed", "index"}

Min(a, b) == IF a < b THEN a ELSE b
Max(a, b) == IF a > b THEN a ELSE b

\* Array.prototype.slice(0, n): a negative n counts from the end
Slice(s, n) ==
  LET e == IF n < 0 THEN Max(Len(s) + n, 0) ELSE Min(n, Len(s))
  IN  SubSeq(s, 1, e)

\* String.prototype.startsWith
startsWith(s, p) == Len(s) >= Len(p) /\ SubSeq(s, 1, Len(p)) = p

\* x || 'default' on a string: the empty string is falsy
OrDefault(x) == IF x = "" THEN "default" ELSE x

(***************************************************************************)
(* The host type graph (ts.Type handles and what the checker answers).     *)
(***************************************************************************)
NoType == "<none>"

BaseType(n) ==
  [name |-> n, flags |-> {}, intrinsicName |-> "", types |-> <<>>,
   isArray |-> FALSE, typeArguments |-> <<>>, apparent |-> n,
   callSignatures |-> <<>>, properties |-> <<>>,
   stringIndexType |-> NoType, numberIndexType |-> NoType,
   isClassOrInterface |-> FALSE, symbolParent |-> "", symbolName |-> "",
   renders |-> TRUE]

Intrinsic(n) == [BaseType(n) EXCEPT !.flags = {"Primitive", "Intrinsic"}, !.intrinsicName = n]
Literal(n) == [BaseType(n) EXCEPT !.flags = {"Primitive"}]
UnionT(n, ts) == [BaseType(n) EXCEPT !.flags = {"Union"}, !.types = ts]
InterT(n, ts) == [BaseType(n) EXCEPT !.flags = {"Intersection"}, !.types = ts]
ObjT(n, ps) == [BaseType(n) EXCEPT !.flags = {"Object"}, !.properties = ps]
IdxT(n, ps, si, ni) ==
  [BaseType(n) EXCEPT !.flags = {"Object"}, !.properties = ps,
                      !.stringIndexType = si, !.numberIndexType = ni]
ArrT(n, args) ==
  [BaseType(n) EXCEPT !.flags = {"Object"}, !.isArray = TRUE, !.typeArguments = args,
                      !.properties = <<[name |-> "length", type |-> "number"]>>]
RefT(n, args) == [BaseType(n) EXCEPT !.flags = {"Object"}, !.typeArguments = args]
FnT(n, sigs) == [BaseType(n) EXCEPT !.flags = {"Object"}, !.callSignatures = sigs]
EnumT(n, parent, member, app) ==
  [BaseType(n) EXCEPT !.flags = {"EnumLike", "Primitive"}, !.apparent = app,
                      !.symbolParent = parent, !.symbolName = member]
P(n, t) == [name |-> n, type |-> t]
Sig(ret, ps) == [returnType |-> ret, parameters |-> ps]

HostList ==
  << Intrinsic("string"), Intrinsic("number"), Intrinsic("boolean"),
     Intrinsic("null"), Intrinsic("undefined"), Intrinsic("void"), Intrinsic("any"),
     Literal("\"a\""), Literal("\"null-check\""),
     \* Node = {value: string, next?: Node}
     ObjT("Node", <<P("value", "string"), P("next", "Node | undefined")>>),
     UnionT("Node | undefined", <<"undefined", "Node">>),
     \* A = {b: B}, B = {a: A}
     ObjT("A", <<P("b", "B")>>),
     ObjT("B", <<P("a", "A")>>),
     \* Tree = {left: Tree, right: Tree}
     ObjT("Tree", <<P("left", "Tree"), P("right", "Tree")>>),
     \* the union of the specification's example, in the host's order
     UnionT("string | number | null | undefined",
            <<"undefined", "string", "number", "null">>),
     UnionT("Mixed", <<"undefined", "Ext", "null", "\"a\"", "number", "Indexed", "string">>),
     \* ExternalType of the README
     ObjT("Ext", <<P("requiredProperty", "string"),
                   P("optionalProperty", "string | undefined")>>),
     UnionT("string | undefined", <<"undefined", "string">>),
     \* L1 = {l1: {l2: {l3: string}}}
     ObjT("L1", <<P("l1", "L2")>>),
     ObjT("L2", <<P("l2", "L3")>>),
     ObjT("L3", <<P("l3", "string")>>),
     \* {[key: string]: number}
     IdxT("Indexed", <<>>, "number", NoType),
     IdxT("Dict", <<P("a", "string")>>, "number", "Ext"),
     \* a required property of a literal type whose name contains "null"
     ObjT("Checked", <<P("kind", "\"null-check\""), P("value", "string"),
                       P("inner", "Ext")>>),
     FnT("(props: Checked) => void", <<Sig("void", <<P("props", "Checked")>>)>>),
     \* a type the checker throws on when asked to render it, as a property
     [BaseType("<broken>") EXCEPT !.flags = {"Object"}, !.renders = FALSE],
     ObjT("WithBroken", <<P("ok", "string"), P("bad", "<broken>")>>),
     FnT("(props: WithBroken) => void", <<Sig("void", <<P("props", "WithBroken")>>)>>),
     \* a cycle that crosses no property: type Nested = Nested[]
     ArrT("Nested", <<"Nested">>),
     \* budgets
     ObjT("Pair", <<P("x", "string"), P("y", "number"), P("z", "boolean")>>),
     ObjT("Wide", <<P("p", "Pair"), P("children", "string"), P("q", "Pair"),
                    P("d", "Dict"), P("u", "Mixed")>>),
     ArrT("Ext[]", <<"Ext">>),
     ArrT("Array", <<>>),
     \* an array type whose interface was given a call signature
     [ArrT("CallableList", <<"string">>) EXCEPT !.callSignatures = <<Sig("void", <<>>)>>],
     RefT("Promise<any>", <<"any">>),
     RefT("Promise<>", <<>>),
     InterT("Ext & Dict", <<"Ext", "Dict">>),
     InterT("Pair & Ext[]", <<"Pair", "Ext[]">>),
     EnumT("Color.Red", "Color", "Red", "Number"),
     ObjT("Number", <<P("toFixed", "() => void")>>),
     FnT("() => void", <<Sig("void", <<>>)>>),
     FnT("() => Promise<any>", <<Sig("Promise<any>", <<>>)>>),
     ObjT("Props", <<P("requiredNode", "Node"), P("optionalArray", "Ext[] | undefined"),
                     P("requiredObject", "Ext"), P("color", "Color.Red"),
                     P("onLoad", "() => Promise<any>")>>),
     UnionT("Ext[] | undefined", <<"undefined", "Ext[]">>),
     FnT("(props: Props) => void", <<Sig("void", <<P("props", "Props")>>)>>),
     FnT("(props: Wide) => void", <<Sig("void", <<P("props", "Wide")>>)>>),
     FnT("(props: Ext & Dict) => void", <<Sig("void", <<P("props", "Ext & Dict")>>)>>)
  >>

TypeIds == {HostList[i].name : i \in 1..Len(HostList)}
HostGraph == [n \in TypeIds |-> HostList[CHOOSE i \in 1..Len(HostList) : HostList[i].name = n]]
UnionIds == {id \in TypeIds : "Union" \in HostGraph[id].flags}

VARIABLES
  host               \* the host's type graph: what the checker answers for each type

\* the host's answers about one type
T(id) == host[id]

\* checker.typeToString(type)
typeToString(id) == T(id).name

(***************************************************************************)
(* The union ordering.                                                     *)
(***************************************************************************)
\* Map.get(name) ?? -1 over the index map of an order list
OrderIndex(order, n) ==
  IF \E i \in 1..Len(order) : order[i] = n
  THEN (CHOOSE i \in 1..Len(order) : order[i] = n) - 1
  ELSE -1

isPrimitiveType(id) == "EnumLike" \notin T(id).flags /\ "Primitive" \in T(id).flags

isIntrinsicType(id) == "Intrinsic" \in T(id).flags

sortUnionTypes_FalsyFirst(a, b) ==
  LET an == IF isIntrinsicType(a) THEN T(a).intrinsicName ELSE ""
      bn == IF isIntrinsicType(b) THEN T(b).intrinsicName ELSE ""
      ap == OrderIndex(primitiveTypesOrder, an)
      bp == OrderIndex(primitiveTypesOrder, bn)
      af == OrderIndex(falsyTypesOrder, an)
      bf == OrderIndex(falsyTypesOrder, bn)
  IN  IF ap # -1 /\ bp # -1 THEN ap - bp
      ELSE IF ap # -1 THEN -1
      ELSE IF bp # -1 THEN 1
      ELSE IF af # -1 /\ bf # -1 THEN af - bf
      ELSE IF af # -1 THEN -1
      ELSE IF bf # -1 THEN 1
      ELSE 0

sortUnionTypes(a, b) ==
  LET an == IF isIntrinsicType(a) THEN T(a).intrinsicName ELSE ""
      bn == IF isIntrinsicType(b) THEN T(b).intrinsicName ELSE ""
      ap == OrderIndex(primitiveTypesOrder, an)
      bp == OrderIndex(primitiveTypesOrder, bn)
      af == OrderIndex(falsyTypesOrder, an)
      bf == OrderIndex(falsyTypesOrder, bn)
  IN  IF ap # -1 /\ bp # -1 THEN ap - bp
      ELSE IF ap # -1 THEN -1
      ELSE IF bp # -1 THEN 1
      ELSE IF af # -1 /\ bf # -1 THEN af - bf
      ELSE IF af # -1 THEN 1
      ELSE IF bf # -1 THEN -1
      ELSE 0

\* Array.prototype.sort(sortUnionTypes): a stable sort; x goes after the last
\* element that does not compare greater than it
RECURSIVE InsertSorted(_, _)
InsertSorted(s, x) ==
  IF s = <<>> THEN <<x>>
  ELSE IF sortUnionTypes(s[Len(s)], x) > 0
       THEN Append(InsertSorted(SubSeq(s, 1, Len(s) - 1), x), s[Len(s)])
       ELSE Append(s, x)

RECURSIVE SortTypes(_)
SortTypes(s) ==
  IF s = <<>> THEN <<>>
  ELSE InsertSorted(SortTypes(SubSeq(s, 1, Len(s) - 1)), s[Len(s)])

(***************************************************************************)
(* TypeTree values.                                                        *)
(***************************************************************************)
Basic(n) == [kind |-> "basic", typeName |-> n]
\* a catch that degrades to the leaf 'any'
Unknown_AsAny == Basic("any")

Unknown == Basic("unknown")

\* the signatures of a function node from the trees of its calls, which are
\* made signature by signature: the return type, then each parameter
RECURSIVE BuildSignatures(_, _, _, _)
BuildSignatures(sigs, i, trees, acc) ==
  IF i > Len(sigs) THEN acc
  ELSE LET n == Len(sigs[i].parameters)
           sig == [returnType |-> trees[1],
                   parameters |-> [j \in 1..n |->
                                     [name |-> sigs[i].parameters[j].name,
                                      type |-> trees[j + 1]]]]
       IN  BuildSignatures(sigs, i + 1, SubSeq(trees, n + 2, Len(trees)), Append(acc, sig))

RECURSIVE SignatureCalls(_, _, _)
SignatureCalls(sigs, i, acc) ==
  IF i > Len(sigs) THEN acc
  ELSE SignatureCalls(sigs, i + 1,
         acc \o <<[type |-> sigs[i].returnType, propertyName |-> "returnType",
                   kind |-> "function"]>>
             \o [j \in 1..Len(sigs[i].parameters) |->
                   [type |-> sigs[i].parameters[j].type,
                    propertyName |-> sigs[i].parameters[j].name,
                    kind |-> "parameter"]])

IsObjectLike(id) ==
  T(T(id).apparent).isClassOrInterface \/ "Object" \in T(T(id).apparent).flags

(***************************************************************************)
(* What the revisions of getTypeTree share.                                *)
(***************************************************************************)
\* the branch of the if-chain a node takes, after the tests that return a leaf
Branch(type, arrayFirst) ==
  LET t == T(type)
      isPromise == startsWith(typeToString(type), "Promise<")
      hasCalls == Len(T(t.apparent).callSignatures) > 0
  IN  IF "Union" \in t.flags THEN "union"
      ELSE IF "Intersection" \in t.flags THEN "intersection"
      ELSE IF arrayFirst /\ t.isArray THEN "array"
      ELSE IF isPromise THEN "promise"
      ELSE IF hasCalls THEN "function"
      ELSE IF t.isArray THEN "array"
      ELSE IF IsObjectLike(type) THEN "object"
      ELSE "basic"

\* the node of a branch from the trees of its calls
MakeNode(branch, type, calls, trees) ==
  LET typeName == typeToString(type) IN
  CASE branch = "union" -> [kind |-> "union", typeName |-> typeName, types |-> trees]
    [] branch = "intersection" ->
         [kind |-> "intersection", typeName |-> typeName, types |-> trees]
    [] branch = "array" ->
         [kind |-> "array", typeName |-> typeName,
          elementType |-> IF trees = <<>> THEN Basic("any") ELSE trees[1]]
    [] branch = "promise" ->
         [kind |-> "promise", typeName |-> typeName,
          type |-> IF trees = <<>> THEN Basic("void") ELSE trees[1]]
    [] branch = "function" ->
         [kind |-> "function", typeName |-> typeName,
          signatures |-> BuildSignatures(T(T(type).apparent).callSignatures, 1, trees, <<>>)]
    [] branch = "object" ->
         [kind |-> "object", typeName |-> typeName,
          properties |-> [i \in 1..Len(calls) |->
                            [name |-> calls[i].name, type |-> trees[i]]]]
    [] OTHER -> Basic(typeName)

\* the calls of the object branch: one per kept own property, each with the
\* value of context.propertiesCount at the time of the call
RECURSIVE ObjectCalls(_, _, _, _, _)
ObjectCalls(public, i, count, acc, excluded) ==
  IF i > Len(public) THEN [calls |-> acc, count |-> count]
  ELSE IF public[i].name \in excluded
       THEN ObjectCalls(public, i + 1, count - 1, acc, excluded)
       ELSE ObjectCalls(public, i + 1, count,
              Append(acc, [type |-> public[i].type, propertyName |-> public[i].name,
                           kind |-> "object", count |-> count, inc |-> 0,
                           name |-> public[i].name]), excluded)

\* the own properties an object node may take
PublicProperties(type, depth, count, options) ==
  LET remainingProperties == options.maxProperties - count
      depthMaxProps == IF depth >= 1 THEN options.maxSubProperties
                       ELSE options.maxProperties
      allowedPropertiesCount == Min(depthMaxProps, remainingProperties)
  IN  Slice(T(T(type).apparent).properties, allowedPropertiesCount)

\* the calls of the object branch, index signatures included; each index
\* signature is followed by context.propertiesCount++
PropertyCalls(type, depth, count, options, propertyName, excluded) ==
  LET t == T(type)
      publicProperties == PublicProperties(type, depth, count, options)
      own == ObjectCalls(publicProperties, 1, count + Len(publicProperties), <<>>, excluded)
      hasS == t.stringIndexType # NoType
      sCall == IF hasS
               THEN <<[type |-> t.stringIndexType,
                       propertyName |-> propertyName \o "-stringIndex",
                       kind |-> "object", count |-> own.count, inc |-> 1,
                       name |-> "[key: string]"]>>
               ELSE <<>>
      nCall == IF t.numberIndexType # NoType
               THEN <<[type |-> t.numberIndexType,
                       propertyName |-> propertyName \o "-numberIndex",
                       kind |-> "object",
                       count |-> own.count + (IF hasS THEN 1 ELSE 0), inc |-> 1,
                       name |-> "[key: number]"]>>
               ELSE <<>>
  IN  own.calls \o sCall \o nCall

\* the goingDeep calls of a branch, in the order they are made
BranchCalls(branch, type, members, depth, count, options, propertyName, excluded) ==
  LET t == T(type)
      Call(ty, p, k) == [type |-> ty, propertyName |-> p, kind |-> k,
                         count |-> count, inc |-> 0]
  IN
  CASE branch = "union" ->
         [i \in 1..Len(members) |-> Call(members[i], propertyName, "union")]
    [] branch = "intersection" ->
         [i \in 1..Len(t.types) |-> Call(t.types[i], propertyName, "intersection")]
    [] branch = "array" ->
         IF t.typeArguments = <<>> THEN <<>>
         ELSE <<Call(t.typeArguments[1], propertyName \o "-element", "array")>>
    [] branch = "promise" ->
         IF t.typeArguments = <<>> THEN <<>>
         ELSE <<Call(t.typeArguments[1], propertyName \o "-promise", "promise")>>
    [] branch = "function" ->
         LET calls == SignatureCalls(T(t.apparent).callSignatures, 1, <<>>)
         IN  [i \in 1..Len(calls) |-> Call(calls[i].type, calls[i].propertyName, calls[i].kind)]
    [] branch = "object" ->
         PropertyCalls(type, depth, count, options, propertyName, excluded)
    [] OTHER -> <<>>

(***************************************************************************)
(* getTypeTree, src/src/type-tree/getTypes.ts:137-370.                     *)
(* The memo is a Map keyed by name:property:role:depth, written when a     *)
(* node is finished; context is copied ({...context}) for every child; the *)
(* depth is not tested against maxDepth.                                   *)
(***************************************************************************)
CacheKeyD(id, propertyName, kind, depth) ==
  typeToString(id) \o ":" \o OrDefault(propertyName) \o ":" \o OrDefault(kind)
                  \o ":" \o ToString(depth)

RECURSIVE getTypeTree(_, _, _, _, _)
RECURSIVE goingDeepAll(_, _, _, _, _, _)

\* goingDeep applied to each call in turn; stops at the first call that throws
\* (checker.typeToString of a type the host cannot render, or of undefined)
goingDeepAll(calls, i, depth, st, options, acc) ==
  IF i > Len(calls) THEN [trees |-> acc, st |-> st, threw |-> FALSE]
  ELSE IF calls[i].type = NoType \/ ~T(calls[i].type).renders
  THEN [trees |-> acc, st |-> st, threw |-> TRUE]
  ELSE LET c == calls[i]
           r == IF CacheKeyD(c.type, c.propertyName, c.kind, depth + 1) \in DOMAIN st.visited
                THEN [tree |-> Basic(typeToString(c.type)), st |-> st]
                ELSE getTypeTree(c.type, depth + 1, st, options,
                                 [propertiesCount |-> c.count,
                                  propertyName |-> c.propertyName, kind |-> c.kind])
       IN  goingDeepAll(calls, i + 1, depth, r.st, options, Append(acc, r.tree))

getTypeTree(type, depth, st0, options, context) ==
  LET st == [st0 EXCEPT !.calls = @ + 1]
      propertyName == OrDefault(context.propertyName)
      contextKind == OrDefault(context.kind)
      uniqueId == CacheKeyD(type, propertyName, contextKind, depth)
      branch == Branch(type, TRUE)
      \* the array branch calls goingDeep(undefined) when there is no type
      \* argument: the 'any' node assigned before it is not returned
      calls == IF branch = "array" /\ T(type).typeArguments = <<>>
               THEN <<[type |-> NoType, propertyName |-> propertyName \o "-element",
                       kind |-> "array", count |-> context.propertiesCount, inc |-> 0]>>
               ELSE BranchCalls(branch, type,
                                SortTypes(Slice(T(type).types, options.maxUnionMembers)),
                                depth, context.propertiesCount, options, propertyName,
                                excludedProps)
      r == goingDeepAll(calls, 1, depth, st, options, <<>>)
      result == MakeNode(branch, type, calls, r.trees)
  IN
  \* the call stack is exhausted: the RangeError is caught like any other
  IF depth >= StackLimit
  THEN [tree |-> Unknown,
        st |-> [st EXCEPT !.overflow = TRUE,
                          !.spending = @ \/ context.propertiesCount > 0]]
  ELSE IF ~T(type).renders THEN [tree |-> Unknown, st |-> st]
  ELSE IF isPrimitiveType(type) THEN [tree |-> Basic(typeToString(type)), st |-> st]
  ELSE IF uniqueId \in DOMAIN st.visited THEN [tree |-> st.visited[uniqueId], st |-> st]
  ELSE IF r.threw THEN [tree |-> Unknown, st |-> r.st]
  ELSE [tree |-> result, st |-> [r.st EXCEPT !.visited = (uniqueId :> result) @@ @]]

\* overflow: the descent reached the end of the stack; spending: it did so
\* on a path that was still using up the property budget, which would have
\* ended it on a stack of the engine's size
InitBuild == [visited |-> <<>>, calls |-> 0, overflow |-> FALSE, spending |-> FALSE]

(***************************************************************************)
(* getTypeTree, src/src/type-tree/getTypes.ts:534-774.                     *)
(* The visited set holds name:property:role keys, added on entry; the      *)
(* depth limit is tested; no property name is excluded.                    *)
(***************************************************************************)
CacheKey(id, propertyName, kind) ==
  typeToString(id) \o ":" \o OrDefault(propertyName) \o ":" \o OrDefault(kind)

RECURSIVE getTypeTree_keyed(_, _, _, _, _)
RECURSIVE goingDeepAll_keyed(_, _, _, _, _, _)

goingDeepAll_keyed(calls, i, depth, st, options, acc) ==
  IF i > Len(calls) THEN [trees |-> acc, st |-> st, threw |-> FALSE]
  ELSE IF calls[i].type = NoType \/ ~T(calls[i].type).renders
  THEN [trees |-> acc, st |-> st, threw |-> TRUE]
  ELSE LET c == calls[i]
           r == IF CacheKey(c.type, c.propertyName, c.kind) \in st.visited
                THEN [tree |-> Basic(typeToString(c.type)), st |-> st]
                ELSE getTypeTree_keyed(c.type, depth + 1, st, options,
                                       [propertiesCount |-> c.count,
                                        propertyName |-> c.propertyName, kind |-> c.kind])
       IN  goingDeepAll_keyed(calls, i + 1, depth, r.st, options, Append(acc, r.tree))

getTypeTree_keyed(type, depth, st0, options, context) ==
  LET st1 == [st0 EXCEPT !.calls = @ + 1]
      propertyName == OrDefault(context.propertyName)
      contextKind == OrDefault(context.kind)
      cacheKey == CacheKey(type, propertyName, contextKind)
      st == [st1 EXCEPT !.visited = @ \cup {cacheKey}]
      branch == Branch(type, TRUE)
      calls == BranchCalls(branch, type,
                           SortTypes(Slice(T(type).types, options.maxUnionMembers)),
                           depth, context.propertiesCount, options, propertyName, {})
      r == goingDeepAll_keyed(calls, 1, depth, st, options, <<>>)
  IN
  IF depth >= StackLimit THEN [tree |-> Unknown, st |-> [st1 EXCEPT !.overflow = TRUE]]
  ELSE IF ~T(type).renders THEN [tree |-> Unknown, st |-> st1]
  ELSE IF cacheKey \in st0.visited THEN [tree |-> Basic(typeToString(type)), st |-> st1]
  ELSE IF depth >= options.maxDepth \/ isPrimitiveType(type)
  THEN [tree |-> Basic(typeToString(type)), st |-> st]
  ELSE IF branch = "object" /\ context.propertiesCount >= options.maxProperties
  THEN [tree |-> Basic(typeToString(type)), st |-> st]
  ELSE IF r.threw THEN [tree |-> Unknown, st |-> r.st]
  ELSE [tree |-> MakeNode(branch, type, calls, r.trees), st |-> r.st]

InitBuild_keyed == [visited |-> {}, calls |-> 0, overflow |-> FALSE]

(***************************************************************************)
(* getTypeTree, src/src/type-tree/index.ts:113-350.                        *)
(* The visited set holds type handles; context is one shared object; the   *)
(* sorted members of a union are kept in the module-level sortedUnionCache *)
(* and the sort is done in place on the host's member list when the union  *)
(* is not cut; enum members are recognised; call signatures are tested     *)
(* before the array test.                                                  *)
(***************************************************************************)
RECURSIVE getTypeTree_index(_, _, _, _)
RECURSIVE goingDeepAll_index(_, _, _, _, _, _)

\* goingDeep applied to each call in turn, each followed by
\* context.propertiesCount += inc
goingDeepAll_index(calls, i, depth, st, options, acc) ==
  IF i > Len(calls) THEN [trees |-> acc, st |-> st]
  ELSE LET r == getTypeTree_index(calls[i].type, depth + 1, st, options)
       IN  goingDeepAll_index(calls, i + 1, depth,
                              [r.st EXCEPT !.count = @ + calls[i].inc],
                              options, Append(acc, r.tree))

IsEnumMember(type) == "EnumLike" \in T(type).flags /\ T(type).symbolParent # ""

getTypeTree_index(type, depth, st0, options) ==
  LET st1 == [st0 EXCEPT !.calls = @ + 1]
      st == [st1 EXCEPT !.visited = @ \cup {type}]
      typeName == typeToString(type)
      branch == Branch(type, FALSE)
      members == st.unionTypes[type]
      cut == Len(members) > options.maxUnionMembers
      limitedTypes == SortTypes(IF cut THEN Slice(members, options.maxUnionMembers)
                                ELSE members)
      calls == BranchCalls(branch, type, limitedTypes, depth, st.count, options, "", {})
      \* without the cut limitedTypes is the host's own array, sorted in place;
      \* the object branch adds its own properties to the count first
      before ==
        IF branch = "union" /\ ~cut
        THEN [st EXCEPT !.unionTypes = [@ EXCEPT ![type] = limitedTypes]]
        ELSE IF branch = "object"
        THEN [st EXCEPT !.count = @ + Len(PublicProperties(type, depth, st.count, options))]
        ELSE st
      r == goingDeepAll_index(calls, 1, depth, before, options, <<>>)
  IN
  IF depth >= StackLimit THEN [tree |-> Unknown, st |-> [st1 EXCEPT !.overflow = TRUE]]
  ELSE IF ~T(type).renders THEN [tree |-> Unknown, st |-> st1]
  ELSE IF depth >= options.maxDepth \/ isPrimitiveType(type)
  THEN [tree |-> Basic(typeName), st |-> st1]
  ELSE IF type \in st0.visited THEN [tree |-> Basic(typeName), st |-> st1]
  ELSE IF branch = "union" /\ type \in DOMAIN st.sortedUnionCache
  THEN [tree |-> [kind |-> "union", typeName |-> typeName,
                  types |-> st.sortedUnionCache[type]], st |-> st]
  ELSE IF branch = "union"
  THEN [tree |-> MakeNode(branch, type, calls, r.trees),
        st |-> [r.st EXCEPT !.sortedUnionCache = (type :> r.trees) @@ @]]
  ELSE IF IsEnumMember(type)
  THEN [tree |-> [kind |-> "enum", typeName |-> typeName,
                  member |-> T(type).symbolParent \o "." \o T(type).symbolName],
        st |-> st]
  ELSE IF branch = "object" /\ st.count >= options.maxProperties
  THEN [tree |-> Basic(typeName), st |-> st]
  ELSE [tree |-> MakeNode(branch, type, calls, r.trees), st |-> r.st]

(***************************************************************************)
(* Synthesized default values (src/src/type-tree/transformer.ts).          *)
(* A JavaScript value is tagged with its typeof; a plain object is the     *)
(* sequence of its own enumerable entries in enumeration order.            *)
(***************************************************************************)
VStr(x) == [t |-> "string", str |-> x]
VNum(x) == [t |-> "number", num |-> x]
VBool(x) == [t |-> "boolean", bool |-> x]
VObj(es) == [t |-> "object", entries |-> es]
VArr(xs) == [t |-> "array", items |-> xs]

\* canonical array-index keys, which an object enumerates first, ascending
IndexKeys == <<"0", "1", "2", "3">>
IsIndexKey(k) == \E i \in 1..Len(IndexKeys) : IndexKeys[i] = k
KeyRank(k) == IF IsIndexKey(k) THEN CHOOSE i \in 1..Len(IndexKeys) : IndexKeys[i] = k
              ELSE Len(IndexKeys) + 1

\* obj[k] = v
ObjSet(es, k, v) ==
  IF \E i \in 1..Len(es) : es[i].key = k
  THEN [i \in 1..Len(es) |-> IF es[i].key = k THEN [key |-> k, value |-> v] ELSE es[i]]
  ELSE LET before == SelectSeq(es, LAMBDA e : KeyRank(e.key) <= KeyRank(k))
           after == SelectSeq(es, LAMBDA e : KeyRank(e.key) > KeyRank(k))
       IN  before \o <<[key |-> k, value |-> v]>> \o after

\* the own enumerable entries of a value that is spread into an object
SpreadEntries(v) ==
  IF v.t = "object" THEN v.entries
  ELSE IF v.t = "array"
       THEN [i \in 1..Len(v.items) |-> [key |-> ToString(i - 1), value |-> v.items[i]]]
       ELSE <<>>

\* {...a, ...b}
RECURSIVE Spread(_, _, _)
Spread(es, more, i) ==
  IF i > Len(more) THEN es
  ELSE Spread(ObjSet(es, more[i].key, more[i].value), more, i + 1)

\* String.prototype.includes over the rendered names of the model
includes(s, sub) ==
  \E i \in 1..(Len(s) - Len(sub) + 1) : SubSeq(s, i, i + Len(sub) - 1) = sub

\* String.prototype.toLowerCase, letter by letter
Upper == "ABCDEFGHIJKLMNOPQRSTUVWXYZ"
Lower == "abcdefghijklmnopqrstuvwxyz"
RECURSIVE toLowerCase(_)
toLowerCase(s) ==
  IF s = "" THEN ""
  ELSE LET c == SubSeq(s, 1, 1)
           lc == IF \E i \in 1..26 : SubSeq(Upper, i, i) = c
                 THEN LET i == CHOOSE i \in 1..26 : SubSeq(Upper, i, i) = c
                      IN  SubSeq(Lower, i, i)
                 ELSE c
       IN  lc \o toLowerCase(SubSeq(s, 2, Len(s)))

IsNullishLeaf(tree) ==
  tree.kind = "basic" /\ (tree.typeName = "undefined" \/ tree.typeName = "null")

\* isTypeOptional without its test of basic leaves
isTypeOptional_UnionOnly(type) ==
  type.kind = "union" /\ \E i \in 1..Len(type.types) : IsNullishLeaf(type.types[i])

isTypeOptional(type) ==
  \/ type.kind = "union" /\ \E i \in 1..Len(type.types) : IsNullishLeaf(type.types[i])
  \/ type.kind = "basic" /\ LET typeNameLower == toLowerCase(type.typeName)
                            IN  \/ includes(typeNameLower, "undefined")
                                \/ includes(typeNameLower, "null")

\* getBasicDefaultValue without the case for void
getBasicDefaultValue_VoidAsText(typeName) ==
  CASE typeName \in {"number", "Number"} -> VNum(0)
    [] typeName \in {"boolean", "Boolean"} -> VBool(FALSE)
    [] OTHER -> VStr("")

getBasicDefaultValue(typeName) ==
  CASE typeName \in {"string", "String", "null"} -> VStr("")
    [] typeName \in {"number", "Number"} -> VNum(0)
    [] typeName \in {"boolean", "Boolean"} -> VBool(FALSE)
    [] typeName \in {"any", "unknown"} -> VStr("")
    [] typeName = "void" -> VStr("() => {}")
    [] OTHER -> VStr("")

\* the loop over the members of a union taking the first member whatever it is
FirstLive_Any(types) == IF Len(types) = 0 THEN 0 ELSE 1

\* the member the loop of getDefaultValue over a union returns from: the
\* first that is not a basic null or undefined; 0 when the loop falls through
FirstLive(types) ==
  LET live == {i \in 1..Len(types) : ~IsNullishLeaf(types[i])}
  IN  IF live = {} THEN 0 ELSE CHOOSE i \in live : \A j \in live : i <= j

RECURSIVE processType(_, _)
RECURSIVE getDefaultValue(_, _)
RECURSIVE ProcessProperties(_, _, _, _)
RECURSIVE ProcessMembers(_, _, _, _)
RECURSIVE MergeMembers(_, _, _, _)

\* the loop of processType over the properties of an object node
ProcessProperties(props, i, requiredOnly, result) ==
  IF i > Len(props) THEN result
  ELSE LET isOptional == isTypeOptional(props[i].type)
           shouldInclude == IF requiredOnly THEN ~isOptional ELSE TRUE
       IN  ProcessProperties(props, i + 1, requiredOnly,
             IF shouldInclude
             THEN ObjSet(result, props[i].name, getDefaultValue(props[i].type, requiredOnly))
             ELSE result)

\* the loop of processType over the members of an intersection node
ProcessMembers(types, i, requiredOnly, result) ==
  IF i > Len(types) THEN result
  ELSE ProcessMembers(types, i + 1, requiredOnly,
                      Spread(result, processType(types[i], requiredOnly), 1))

\* the loop of getDefaultValue over the members of an intersection node
MergeMembers(types, i, requiredOnly, result) ==
  IF i > Len(types) THEN result
  ELSE LET parsed == getDefaultValue(types[i], requiredOnly)
       IN  MergeMembers(types, i + 1, requiredOnly,
             IF parsed.t \in {"object", "array"}
             THEN Spread(result, SpreadEntries(parsed), 1)
             ELSE result)

\* the entries of the Record processType returns
processType(type, requiredOnly) ==
  IF type.kind = "intersection" THEN ProcessMembers(type.types, 1, requiredOnly, <<>>)
  ELSE IF type.kind = "object" THEN ProcessProperties(type.properties, 1, requiredOnly, <<>>)
  ELSE <<>>

\* getDefaultValue handing the other mode to the element of an array
getDefaultValue_ArrayFlipsMode(type, requiredOnly) ==
  CASE type.kind = "basic" -> getBasicDefaultValue(type.typeName)
    [] type.kind = "union" ->
         IF FirstLive(type.types) = 0 THEN VStr("")
         ELSE getDefaultValue(type.types[FirstLive(type.types)], requiredOnly)
    [] type.kind = "object" -> VObj(processType(type, requiredOnly))
    [] type.kind = "array" -> VArr(<<getDefaultValue(type.elementType, ~requiredOnly)>>)
    [] type.kind = "function" -> VStr("() => {}")
    [] type.kind = "promise" -> VStr("() => {}")
    [] type.kind = "enum" -> VStr(type.typeName)
    [] type.kind = "intersection" -> VObj(MergeMembers(type.types, 1, requiredOnly, <<>>))
    [] OTHER -> VStr("")

getDefaultValue(type, requiredOnly) ==
  CASE type.kind = "basic" -> getBasicDefaultValue(type.typeName)
    [] type.kind = "union" ->
         IF FirstLive(type.types) = 0 THEN VStr("")
         ELSE getDefaultValue(type.types[FirstLive(type.types)], requiredOnly)
    [] type.kind = "object" -> VObj(processType(type, requiredOnly))
    [] type.kind = "array" -> VArr(<<getDefaultValue(type.elementType, requiredOnly)>>)
    [] type.kind = "function" -> VStr("() => {}")
    [] type.kind = "promise" -> VStr("() => {}")
    [] type.kind = "enum" -> VStr(type.typeName)
    [] type.kind = "intersection" -> VObj(MergeMembers(type.types, 1, requiredOnly, <<>>))
    [] OTHER -> VStr("")

\* typeTreeTransformer taking a root that is not a function for the props type
typeTreeTransformer_RootAsProps(input) ==
  IF ~input.defined
  THEN [name |-> "", exportType |-> "undefined", props |-> <<>>, required |-> <<>>]
  ELSE LET tree == input.typeTree
           typeTree == IF tree.kind # "function" THEN tree
                       ELSE IF Len(tree.signatures) = 0 THEN tree
                       ELSE IF Len(tree.signatures[1].parameters) = 0
                            THEN tree.signatures[1].returnType
                            ELSE tree.signatures[1].parameters[1].type
       IN  [name |-> input.name, exportType |-> "undefined",
            props |-> processType(typeTree, FALSE),
            required |-> processType(typeTree, TRUE)]

\* input is [defined |-> FALSE] for undefined
typeTreeTransformer(input) ==
  LET output == [name |-> "", exportType |-> "undefined", props |-> <<>>, required |-> <<>>]
  IN  IF ~input.defined THEN output
      ELSE LET named == [output EXCEPT !.name = input.name]
               tree == input.typeTree
           IN  IF tree.kind # "function" THEN named
               ELSE IF Len(tree.signatures) = 0 THEN named
               ELSE IF Len(tree.signatures[1].parameters) = 0 THEN named
               ELSE LET typeTree == tree.signatures[1].parameters[1].type
                    IN  [named EXCEPT !.props = processType(typeTree, FALSE),
                                      !.required = processType(typeTree, TRUE)]

(***************************************************************************)
(* The JSX snippets of a descriptor (src/src/generate.ts).                 *)
(***************************************************************************)
\* ' '.repeat(n)
RECURSIVE repeat(_)
repeat(n) == IF n <= 0 THEN "" ELSE " " \o repeat(n - 1)

\* Array.prototype.join
RECURSIVE join(_, _)
join(strs, sep) ==
  IF Len(strs) = 0 THEN ""
  ELSE IF Len(strs) = 1 THEN strs[1]
  ELSE strs[1] \o sep \o join(Tail(strs), sep)

\* String.prototype.trim for the blanks a synthesized value can hold
RECURSIVE trim(_)
trim(s) ==
  IF Len(s) > 0 /\ SubSeq(s, 1, 1) = " " THEN trim(SubSeq(s, 2, Len(s)))
  ELSE IF Len(s) > 0 /\ SubSeq(s, Len(s), Len(s)) = " " THEN trim(SubSeq(s, 1, Len(s) - 1))
  ELSE s

WordStart == "ABCDEFGHIJKLMNOPQRSTUVWXYZabcdefghijklmnopqrstuvwxyz_"
WordChars == "ABCDEFGHIJKLMNOPQRSTUVWXYZabcdefghijklmnopqrstuvwxyz_0123456789"
CharIn(s, i, class) == \E k \in 1..Len(class) : SubSeq(class, k, k) = SubSeq(s, i, i)

\* the first position at or after i that is not in class
RECURSIVE SkipWhile(_, _, _)
SkipWhile(s, i, class) ==
  IF i <= Len(s) /\ CharIn(s, i, class) THEN SkipWhile(s, i + 1, class) ELSE i

\* /^[a-zA-Z_]\w*\s*\(/
LooksLikeCall(s) ==
  /\ Len(s) > 0
  /\ CharIn(s, 1, WordStart)
  /\ LET i == SkipWhile(s, SkipWhile(s, 2, WordChars), " ")
     IN  i <= Len(s) /\ SubSeq(s, i, i) = "("

\* /^\[.*\]$/ over keys, which hold no line break
isDynamicKey_Never(key) == FALSE

isDynamicKey(key) ==
  Len(key) >= 2 /\ SubSeq(key, 1, 1) = "[" /\ SubSeq(key, Len(key), Len(key)) = "]"

isFunctionString(value) ==
  LET trimmed == trim(value)
  IN  startsWith(trimmed, "() =>") \/ startsWith(trimmed, "function") \/ LooksLikeCall(trimmed)

\* the entries generate.ts keeps of an object: .filter(([key]) => !isDynamicKey(key))
StaticEntries(es) == SelectSeq(es, LAMBDA e : ~isDynamicKey(e.key))

RECURSIVE serializeJSXValue(_, _, _, _), SerializeEach(_, _, _, _)
\* values.map((item) => serializeJSXValue(item, indentLevel, depth, true))
SerializeEach(values, i, indentLevel, depth) ==
  IF i > Len(values) THEN <<>>
  ELSE <<serializeJSXValue(values[i], indentLevel, depth, TRUE)>>
       \o SerializeEach(values, i + 1, indentLevel, depth)

serializeJSXValue(value, indentLevel, depth, isInsideObject) ==
  LET currentIndent == repeat(indentLevel * depth)
      nextDepth == depth + 1
      nextIndent == repeat(indentLevel * nextDepth)
      kept == IF value.t = "object" THEN StaticEntries(value.entries) ELSE <<>>
      inner == IF value.t = "array" THEN value.items
               ELSE [i \in 1..Len(kept) |-> kept[i].value]
      parts == SerializeEach(inner, 1, indentLevel, nextDepth)
      wrap(text) == IF isInsideObject THEN text ELSE "{" \o text \o "}"
  IN  CASE value.t = "string" ->
             IF isFunctionString(value.str) THEN wrap(value.str)
             ELSE "\"" \o value.str \o "\""
        [] value.t = "number" -> "{" \o ToString(value.num) \o "}"
        [] value.t = "boolean" -> "{" \o (IF value.bool THEN "true" ELSE "false") \o "}"
        [] value.t = "array" ->
             IF /\ Len(value.items) = 1
                /\ value.items[1].t \in {"object", "array"}
                /\ Len(SpreadEntries(value.items[1])) = 0
             THEN wrap("[]")
             ELSE wrap("[\n" \o nextIndent \o join(parts, ",\n" \o nextIndent)
                       \o "\n" \o currentIndent \o "]")
        [] value.t = "object" ->
             LET entries == join([i \in 1..Len(kept) |->
                                    nextIndent \o kept[i].key \o ": " \o parts[i]], ",\n")
             IN  IF entries = "" THEN wrap("{}")
                 ELSE wrap("{\n" \o entries \o "\n" \o currentIndent \o "}")

\* the lines serializeProps returns for one of the descriptor's maps
serializeProps(propsObject, indentLevel) ==
  LET propIndent == repeat(indentLevel)
      kept == StaticEntries(propsObject)
  IN  [i \in 1..Len(kept) |->
         propIndent \o kept[i].key \o "="
         \o serializeJSXValue(kept[i].value, indentLevel, 1, FALSE)]

buildJSX(name, propsFormatted) ==
  IF Len(propsFormatted) = 0 THEN "<" \o name \o " />"
  ELSE "<" \o name \o "\n" \o join(propsFormatted, "\n") \o "\n/>"

generateJSX(component, importPackageName, indentLevel) ==
  LET exportType == IF component.exportType = "named"
                    THEN "{ " \o component.name \o " }" ELSE component.name
  IN  [component |-> component.name,
       import |-> "import " \o exportType \o " from '" \o importPackageName \o "'",
       minimal |-> buildJSX(component.name, serializeProps(component.required, indentLevel)),
       complete |-> buildJSX(component.name, serializeProps(component.props, indentLevel))]

(***************************************************************************)
(* The analysis as a state machine: getTypeInfoAtPosition builds the tree  *)
(* of the symbol's type, typeTreeTransformer turns it into the component   *)
(* descriptor, and the analyzer returns.  What outlives one analysis is    *)
(* the module-level state of the revision in use and the host's types.     *)
(***************************************************************************)
VARIABLES
  docs,              \* the JSXAutoDocsResult generateJSX returned
  impl,              \* the revision of getTypeTree in use
  unionTypes,        \* the host's member list (type.types) of every union type
  sortedUnionCache,  \* index.ts:44
  builds,            \* analyses started so far
  pc,                \* "idle", "built", "transformed"
  root,              \* the symbol analysed: [found, type, symbol]
  options,           \* the options of the analysis in progress
  typeInfo,          \* what getTypeInfoAtPosition returned
  descriptor,        \* what typeTreeTransformer returned
  stats              \* calls of getTypeTree made; whether the call stack ran out

\* the state of one plugin instance, plugin.ts:39-90
VARIABLES
  cacheSize,         \* the cacheSize option the plugin was made with
  cache,             \* the Map cache, its entries in the Map's key order
  fileContents,      \* the Map fileContents
  fileVersions,      \* the Map fileVersions
  pending,           \* transform calls waiting on generateDocs
  inserted,          \* calls of setCache made so far
  returned           \* the transform call that ended last: its file, the mtimeMs
                     \* it read and the code it returned

pluginVars == <<cacheSize, cache, fileContents, fileVersions, pending, inserted,
                returned>>

vars == <<host, impl, unionTypes, sortedUnionCache, builds, pc, root, options,
          typeInfo, descriptor, stats, docs, pluginVars>>

\* defaultOptions, getTypes.ts:11-16
DefaultBudget == 100
\* cacheSize = 1000, plugin.ts:41
DefaultCacheSize == 1000

\* no transform call has ended yet
NoCall == [path |-> "", mtimeMs |-> 0, code |-> "<none>"]

\* jsxAutoDocsVite(options): the maps start empty
NewPlugin(size) ==
  /\ cacheSize = size
  /\ cache = <<>>
  /\ fileContents = <<>>
  /\ fileVersions = <<>>
  /\ pending = {}
  /\ inserted = 0
  /\ returned = NoCall
defaultOptions ==
  [maxDepth |-> DefaultBudget, maxProperties |-> DefaultBudget,
   maxSubProperties |-> DefaultBudget, maxUnionMembers |-> DefaultBudget]

OptionFields == {"maxDepth", "maxProperties", "maxSubProperties", "maxUnionMembers"}

\* the options callers pass: the defaults with one budget lowered
OptionSets ==
  {defaultOptions} \cup
  {[defaultOptions EXCEPT ![f] = v] : f \in OptionFields, v \in 0..MaxBudget}

\* the symbols analysed
Roots ==
  { [found |-> TRUE, type |-> "(props: Props) => void", symbol |-> "MyComponent"],
    [found |-> TRUE, type |-> "(props: Wide) => void", symbol |-> "Wide"],
    [found |-> TRUE, type |-> "(props: Ext & Dict) => void", symbol |-> ""],
    [found |-> TRUE, type |-> "() => void", symbol |-> "NoProps"],
    [found |-> TRUE, type |-> "Nested", symbol |-> "Nested"],
    [found |-> TRUE, type |-> "(props: Checked) => void", symbol |-> "Checked"],
    [found |-> TRUE, type |-> "(props: WithBroken) => void", symbol |-> "WithBroken"],
    [found |-> TRUE, type |-> "Node", symbol |-> "Node"],
    [found |-> TRUE, type |-> "A", symbol |-> "A"],
    [found |-> TRUE, type |-> "Tree", symbol |-> "Tree"],
    [found |-> TRUE, type |-> "string | number | null | undefined", symbol |-> "U"],
    [found |-> TRUE, type |-> "Mixed", symbol |-> "Mixed"],
    [found |-> TRUE, type |-> "Ext", symbol |-> "ExternalType"],
    [found |-> TRUE, type |-> "L1", symbol |-> "L1"],
    [found |-> TRUE, type |-> "Indexed", symbol |-> "Indexed"],
    [found |-> TRUE, type |-> "Dict", symbol |-> "Dict"],
    [found |-> TRUE, type |-> "Wide", symbol |-> "WideProps"],
    [found |-> TRUE, type |-> "Pair & Ext[]", symbol |-> "PE"],
    [found |-> TRUE, type |-> "Array", symbol |-> "Arr"],
    [found |-> TRUE, type |-> "CallableList", symbol |-> "CallableList"],
    [found |-> TRUE, type |-> "Color.Red", symbol |-> "Red"],
    [found |-> TRUE, type |-> "Promise<>", symbol |-> "Pr"],
    [found |-> FALSE, type |-> NoType, symbol |-> ""] }

NoRoot == [found |-> FALSE, type |-> NoType, symbol |-> ""]
Undefined == [defined |-> FALSE]
NoDescriptor == [name |-> "", exportType |-> "undefined", props |-> <<>>, required |-> <<>>]
NoStats == [calls |-> 0, overflow |-> FALSE]
NoDocs == [component |-> "", import |-> "", minimal |-> "", complete |-> ""]
PackageName == "my-package"
IndentLevels == {0, 2}
ExportTypes == {"named", "default", "undefined"}
context0 == [propertiesCount |-> 0, propertyName |-> "", kind |-> ""]

Init ==
  /\ host = HostGraph
  /\ impl \in Impls
  /\ unionTypes = [u \in UnionIds |-> HostGraph[u].types]
  /\ sortedUnionCache = <<>>
  /\ builds = 0
  /\ pc = "idle"
  /\ root = NoRoot
  /\ options = defaultOptions
  /\ typeInfo = Undefined
  /\ descriptor = NoDescriptor
  /\ stats = NoStats
  /\ docs = NoDocs
  /\ NewPlugin(DefaultCacheSize)

\* the root call of getTypeTree in the revision in use
Build(type, opts) ==
  IF impl = "getTypes" THEN
    LET r == getTypeTree(type, 0, InitBuild, opts, context0)
    IN  [tree |-> r.tree, calls |-> r.st.calls, overflow |-> r.st.overflow,
         fits |-> ~r.st.spending,
         unionTypes |-> unionTypes, sortedUnionCache |-> sortedUnionCache]
  ELSE IF impl = "keyed" THEN
    LET r == getTypeTree_keyed(type, 0, InitBuild_keyed, opts, context0)
    IN  [tree |-> r.tree, calls |-> r.st.calls, overflow |-> r.st.overflow,
         fits |-> ~r.st.overflow,
         unionTypes |-> unionTypes, sortedUnionCache |-> sortedUnionCache]
  ELSE
    LET r == getTypeTree_index(type, 0,
               [visited |-> {}, count |-> 0, calls |-> 0, overflow |-> FALSE,
                unionTypes |-> unionTypes, sortedUnionCache |-> sortedUnionCache], opts)
    IN  [tree |-> r.tree, calls |-> r.st.calls, overflow |-> r.st.overflow,
         fits |-> ~r.st.overflow,
         unionTypes |-> r.st.unionTypes, sortedUnionCache |-> r.st.sortedUnionCache]

\* getTypeInfoAtPosition
GetTypeInfo(r, opts) ==
  /\ pc = "idle"
  /\ builds < MaxBuilds
  /\ builds' = builds + 1
  /\ pc' = "built"
  /\ root' = r
  /\ options' = opts
  /\ descriptor' = NoDescriptor
  /\ UNCHANGED <<host, impl, docs, pluginVars>>
  /\ IF ~r.found
     THEN /\ typeInfo' = Undefined
          /\ stats' = NoStats
          /\ UNCHANGED <<unionTypes, sortedUnionCache>>
     ELSE \E b \in {Build(r.type, opts)} :
              \* StackLimit is far below the engine's stack: a build that the
              \* property budget or maxDepth would have ended further down
              \* is not taken
              /\ b.fits
              /\ typeInfo' = [defined |-> TRUE, typeTree |-> b.tree,
                              name |-> IF r.symbol = "" THEN typeToString(r.type)
                                       ELSE r.symbol]
              /\ stats' = [calls |-> b.calls, overflow |-> b.overflow]
              /\ unionTypes' = b.unionTypes
              /\ sortedUnionCache' = b.sortedUnionCache

\* typeTreeTransformer(typeInfo)
Transform ==
  /\ pc = "built"
  /\ pc' = "transformed"
  /\ descriptor' = typeTreeTransformer(typeInfo)
  /\ UNCHANGED <<host, impl, unionTypes, sortedUnionCache, builds, root, options,
                 typeInfo, stats, docs, pluginVars>>

\* the analyzer records how the component is exported, and generateDocs hands
\* the descriptor to generateJSX
Generate(exported, indentLevel) ==
  /\ pc = "transformed"
  /\ pc' = "generated"
  /\ descriptor' = [descriptor EXCEPT !.exportType = exported]
  /\ docs' = generateJSX(descriptor', PackageName, indentLevel)
  /\ UNCHANGED <<host, impl, unionTypes, sortedUnionCache, builds, root, options,
                 typeInfo, stats, pluginVars>>

\* the analyzer returns: the locals of the analysis are dropped
Return ==
  /\ pc \in {"transformed", "generated"}
  /\ pc' = "idle"
  /\ root' = NoRoot
  /\ options' = defaultOptions
  /\ typeInfo' = Undefined
  /\ descriptor' = NoDescriptor
  /\ stats' = NoStats
  /\ docs' = NoDocs
  /\ UNCHANGED <<host, impl, unionTypes, sortedUnionCache, builds, pluginVars>>

Next ==
  \/ \E r \in Roots, opts \in OptionSets : GetTypeInfo(r, opts)
  \/ Transform
  \/ \E exported \in ExportTypes, indentLevel \in IndentLevels : Generate(exported, indentLevel)
  \/ Return

Spec == Init /\ [][Next]_vars

(***************************************************************************)
(* typeTreeTransformer over TypeInfo values a caller may hand it: every    *)
(* well-formed TypeTree of a small grammar, the results of getTypeTree or  *)
(* not.                                                                    *)
(***************************************************************************)
SynthLeaves ==
  {Basic(n) : n \in {"string", "number", "boolean", "null", "undefined", "void", "any",
                     "string | undefined", "Nullable", "Date", "unknown", "bigint",
                     "String", "Number", "Boolean"}}
  \cup {[kind |-> "enum", typeName |-> "Color.Red", member |-> "Color.Red"],
        \* the member of enum Only { A }, which the checker renders as the enum
        [kind |-> "enum", typeName |-> "Only", member |-> "Only.A"],
        [kind |-> "function", typeName |-> "() => void",
         signatures |-> <<[returnType |-> Basic("void"), parameters |-> <<>>]>>],
        [kind |-> "promise", typeName |-> "Promise<any>", type |-> Basic("any")]}

SynthObjects ==
  {[kind |-> "object", typeName |-> "O",
    properties |-> <<[name |-> "a", type |-> x], [name |-> k, type |-> y]>>] :
      x \in SynthLeaves, y \in {Basic("number"), Basic("undefined")},
      k \in {"b", "[key: string]"}}
  \cup {[kind |-> "object", typeName |-> "Empty", properties |-> <<>>]}

SynthUnions ==
  {[kind |-> "union", typeName |-> "U", types |-> <<x, y>>] :
      x \in {Basic("null"), Basic("undefined"), Basic("number")}, y \in SynthLeaves}
  \cup {[kind |-> "union", typeName |-> "never", types |-> <<>>]}

SynthArrays ==
  {[kind |-> "array", typeName |-> "A[]", elementType |-> x] :
      x \in {Basic("string"), [kind |-> "object", typeName |-> "Empty", properties |-> <<>>],
             [kind |-> "object", typeName |-> "O",
              properties |-> <<[name |-> "a", type |-> Basic("undefined")],
                               [name |-> "b", type |-> Basic("number")]>>]}}

SynthInner == SynthLeaves \cup SynthUnions \cup SynthArrays

SynthIntersections ==
  {[kind |-> "intersection", typeName |-> "I", types |-> <<x, y>>] :
      x \in {[kind |-> "object", typeName |-> "O",
              properties |-> <<[name |-> "a", type |-> Basic("string")],
                               [name |-> "b", type |-> Basic("undefined")]>>]},
      y \in SynthArrays \cup {Basic("string")} \cup
            {[kind |-> "object", typeName |-> "O",
              properties |-> <<[name |-> "b", type |-> Basic("number")],
                               [name |-> "c", type |-> Basic("boolean")]>>],
             \* {a: string; b: undefined} & {a?: number}
             [kind |-> "object", typeName |-> "O",
              properties |-> <<[name |-> "a",
                                type |-> [kind |-> "union", typeName |-> "U",
                                          types |-> <<Basic("undefined"),
                                                      Basic("number")>>]]>>]}}

\* the type of the first parameter
SynthParams ==
  SynthObjects \cup SynthIntersections \cup {Basic("string")} \cup
  {[kind |-> "object", typeName |-> "P",
    properties |-> <<[name |-> "p", type |-> x], [name |-> "q", type |-> y]>>] :
      x \in SynthInner \cup SynthIntersections,
      y \in {Basic("string"),
             [kind |-> "object", typeName |-> "O",
              properties |-> <<[name |-> "a", type |-> Basic("undefined")],
                               [name |-> "[key: number]", type |-> Basic("number")],
                               [name |-> "b", type |-> Basic("number")]>>]}}

SynthTrees ==
  {[kind |-> "function", typeName |-> "F", signatures |-> <<>>],
   [kind |-> "function", typeName |-> "F",
    signatures |-> <<[returnType |-> Basic("void"), parameters |-> <<>>]>>]}
  \cup {[kind |-> "function", typeName |-> "F",
         signatures |-> <<[returnType |-> Basic("void"),
                           parameters |-> <<[name |-> "props", type |-> x]>>]>>] :
          x \in SynthParams}
  \cup SynthObjects \cup SynthArrays \cup {Basic("string")}

SynthInfos ==
  {Undefined} \cup
  {[defined |-> TRUE, typeTree |-> t, name |-> "MyComponent"] : t \in SynthTrees}

\* a caller hands typeTreeTransformer a TypeInfo
Supply(info) ==
  /\ pc = "idle"
  /\ builds < MaxBuilds
  /\ builds' = builds + 1
  /\ pc' = "built"
  /\ typeInfo' = info
  /\ descriptor' = NoDescriptor
  /\ UNCHANGED <<host, impl, unionTypes, sortedUnionCache, root, options, stats, docs,
                 pluginVars>>

SynthNext ==
  \/ \E info \in SynthInfos : Supply(info)
  \/ Transform
  \/ \E exported \in ExportTypes, indentLevel \in IndentLevels : Generate(exported, indentLevel)
  \/ Return

SynthSpec == Init /\ [][SynthNext]_vars

(***************************************************************************)
(* The Vite plugin, plugin.ts.  One plugin instance keeps three Maps; Vite *)
(* calls transform for every module it loads, and a call is suspended at   *)
(* `await generateDocs(...)`, so the calls of several modules interleave   *)
(* there.  What generateDocs returns is an input of the plugin.            *)
(***************************************************************************)
MaxCacheSize == 2
MaxTransforms == 2
MaxPending == 1

coreVars == <<host, impl, unionTypes, sortedUnionCache, builds, pc, root, options,
              typeInfo, descriptor, stats, docs>>

\* process.cwd()
Cwd == "/w"
\* the module ids Vite hands to transform
Ids == {"/A.tsx?v=1", "\\b.tsx#x", "c.tsx", "/a.stories.tsx", "/a.ts"}
Sources == {"export const A = () => null"}
\* statSync(absolutePath): it throws, or the file has a modification time
Stats ==
  {[ok |-> FALSE, mtimeMs |-> 0], [ok |-> TRUE, mtimeMs |-> 1], [ok |-> TRUE, mtimeMs |-> 2]}
\* generateDocs(...): it rejects, or it resolves with a JSXAutoDocsResult
Generated ==
  {[ok |-> FALSE, docs |-> NoDocs],
   [ok |-> TRUE, docs |-> [component |-> "A", import |-> "import { A } from 'my-package'",
                           minimal |-> "<A />", complete |-> "<A />"]]}

\* s.split(ch)[0]
splitFirst(s, ch) ==
  IF \E i \in 1..Len(s) : SubSeq(s, i, i) = ch
  THEN LET i == CHOOSE i \in 1..Len(s) :
                  /\ SubSeq(s, i, i) = ch
                  /\ \A j \in 1..(i - 1) : SubSeq(s, j, j) # ch
       IN  SubSeq(s, 1, i - 1)
  ELSE s

\* s.replace(/\\/g, '/')
RECURSIVE replaceBackslashes(_)
replaceBackslashes(s) ==
  IF s = "" THEN ""
  ELSE (IF SubSeq(s, 1, 1) = "\\" THEN "/" ELSE SubSeq(s, 1, 1))
         \o replaceBackslashes(SubSeq(s, 2, Len(s)))

endsWith(s, suffix) ==
  Len(s) >= Len(suffix) /\ SubSeq(s, Len(s) - Len(suffix) + 1, Len(s)) = suffix

cleanPath(id) == toLowerCase(replaceBackslashes(splitFirst(splitFirst(id, "?"), "#")))

\* normalize(resolve(cleanPath)) of a path without '.', '..' or '//' segments
resolve(path) == IF startsWith(path, "/") THEN path ELSE Cwd \o "/" \o path

\* cleanPath and absolutePath of every module id
PathsOf ==
  [id \in Ids |-> [cleanPath |-> cleanPath(id), absolutePath |-> resolve(cleanPath(id))]]

\* Map.prototype.has / get / set on a Map kept as its entries in key order
MapHas(m, key) == \E i \in 1..Len(m) : m[i].key = key
MapGet(m, key, default) ==
  IF MapHas(m, key) THEN m[CHOOSE i \in 1..Len(m) : m[i].key = key].value ELSE default
MapSet(m, key, value) ==
  IF MapHas(m, key)
  THEN [i \in 1..Len(m) |-> IF m[i].key = key THEN [m[i] EXCEPT !.value = value] ELSE m[i]]
  ELSE Append(m, [key |-> key, value |-> value])

\* setCache without the eviction
setCache_KeepAll(path, cacheEntry) ==
  IF \E i \in 1..Len(cache) : cache[i].key = path
  THEN [i \in 1..Len(cache) |->
          IF cache[i].key = path THEN [cache[i] EXCEPT !.value = cacheEntry]
          ELSE cache[i]]
  ELSE Append(cache, [key |-> path, value |-> cacheEntry, since |-> inserted + 1])

\* setCache: the cache after the call.  `since` is the number of the setCache
\* call that added the key to the Map; Map.set on a key already there
\* replaces the value and leaves the key where it is
setCache(path, cacheEntry) ==
  LET \* cache.keys().next().value is undefined on an empty Map
      kept == IF Len(cache) >= cacheSize /\ cache # <<>> THEN Tail(cache) ELSE cache
  IN  IF \E i \in 1..Len(kept) : kept[i].key = path
      THEN [i \in 1..Len(kept) |->
              IF kept[i].key = path THEN [kept[i] EXCEPT !.value = cacheEntry]
              ELSE kept[i]]
      ELSE Append(kept, [key |-> path, value |-> cacheEntry, since |-> inserted + 1])

\* isCached that does not compare the modification times
isCached_PathOnly(path, mtimeMs) ==
  \E i \in 1..Len(cache) : cache[i].key = path

isCached(path, mtimeMs) ==
  \E i \in 1..Len(cache) : cache[i].key = path /\ cache[i].value.mtimeMs = mtimeMs

\* calls of transform that went past the cache test
RECURSIVE Started(_)
Started(i) == IF i > Len(fileVersions) THEN 0 ELSE fileVersions[i].value + Started(i + 1)

\* JSON.stringify of a string: quotes, backslashes and line ends are escaped
RECURSIVE escapeJSON(_)
escapeJSON(s) ==
  IF s = "" THEN ""
  ELSE LET c == SubSeq(s, 1, 1)
       IN  (IF c = "\"" THEN "\\\""
            ELSE IF c = "\\" THEN "\\\\"
            ELSE IF c = "\n" THEN "\\n"
            ELSE c) \o escapeJSON(SubSeq(s, 2, Len(s)))

\* JSON.stringify(docs) of a JSXAutoDocsResult, its keys in the order of
\* generateJSX's return
stringifyDocs(d) ==
  "{\"component\":\"" \o escapeJSON(d.component)
    \o "\",\"import\":\"" \o escapeJSON(d.import)
    \o "\",\"minimal\":\"" \o escapeJSON(d.minimal)
    \o "\",\"complete\":\"" \o escapeJSON(d.complete) \o "\"}"

\* `${source}\n${injectedCode}`
injectedCode(d) ==
  "\nif (typeof window !== 'undefined') {\n"
    \o "  window.__jsxAutoDocs = window.__jsxAutoDocs || new Set();\n"
    \o "  window.__jsxAutoDocs.add(" \o stringifyDocs(d) \o ");\n}"
Injected(source, d) == source \o "\n" \o injectedCode(d)

\* `return null`
NullCode == "<null>"

\* transform(source, id) up to `await generateDocs(...)`, or to its return
\* when it ends before
transform(source, id, stats_) ==
  \E clean \in {PathsOf[id].cleanPath} : \E absolutePath \in {PathsOf[id].absolutePath} :
      /\ UNCHANGED coreVars
      /\ IF \/ endsWith(clean, ".stories.tsx") \/ ~endsWith(clean, ".tsx")
            \/ ~stats_.ok
         THEN /\ returned' = [path |-> "", mtimeMs |-> 0, code |-> NullCode]
              /\ UNCHANGED <<cacheSize, cache, fileContents, fileVersions, pending, inserted>>
         ELSE IF isCached(absolutePath, stats_.mtimeMs)
         THEN /\ returned' = [path |-> absolutePath, mtimeMs |-> stats_.mtimeMs,
                              code |-> source]
              /\ UNCHANGED <<cacheSize, cache, fileContents, fileVersions, pending, inserted>>
         ELSE /\ Started(1) < MaxTransforms
              /\ Cardinality(pending) < MaxPending
              /\ fileContents' = MapSet(fileContents, absolutePath, source)
              /\ fileVersions' = MapSet(fileVersions, absolutePath,
                                        MapGet(fileVersions, absolutePath, 0) + 1)
              /\ pending' = pending \cup {[call |-> Started(1) + 1, path |-> absolutePath,
                                           mtimeMs |-> stats_.mtimeMs, source |-> source]}
              /\ UNCHANGED <<cacheSize, cache, inserted, returned>>

\* the rest of transform once generateDocs has settled: setCache and the
\* injection, or the catch
transformAwaited(call, generated) ==
  /\ call \in pending
  /\ pending' = pending \ {call}
  /\ UNCHANGED <<coreVars, cacheSize, fileContents, fileVersions>>
  /\ IF generated.ok
     THEN /\ cache' = setCache(call.path, [mtimeMs |-> call.mtimeMs, docs |-> generated.docs])
          /\ inserted' = inserted + 1
          /\ returned' = [path |-> call.path, mtimeMs |-> call.mtimeMs,
                          code |-> Injected(call.source, generated.docs)]
     ELSE /\ returned' = [path |-> call.path, mtimeMs |-> call.mtimeMs,
                          code |-> call.source]
          /\ UNCHANGED <<cache, inserted>>

\* the plugin's program starts without root files (plugin.ts:78-82): no type
\* is loaded before the first analysis
PluginInit ==
  /\ host = <<>>
  /\ impl = "getTypes"
  /\ unionTypes = <<>>
  /\ sortedUnionCache = <<>>
  /\ builds = 0
  /\ pc = "idle"
  /\ root = NoRoot
  /\ options = defaultOptions
  /\ typeInfo = Undefined
  /\ descriptor = NoDescriptor
  /\ stats = NoStats
  /\ docs = NoDocs
  /\ \E size \in 0..MaxCacheSize : NewPlugin(size)

PluginNext ==
  \/ \E source \in Sources, id \in Ids, stats_ \in Stats : transform(source, id, stats_)
  \/ \E call \in pending, generated \in Generated : transformAwaited(call, generated)

PluginSpec == PluginInit /\ [][PluginNext]_vars

(***************************************************************************)
(* Reading a TypeTree.                                                     *)
(***************************************************************************)
RECURSIVE SignatureTrees(_, _)
SignatureTrees(sigs, i) ==
  IF i > Len(sigs) THEN <<>>
  ELSE <<sigs[i].returnType>>
       \o [j \in 1..Len(sigs[i].parameters) |-> sigs[i].parameters[j].type]
       \o SignatureTrees(sigs, i + 1)

\* the recursive fields of a node, in order
ChildTrees(t) ==
  CASE t.kind \in {"union", "intersection"} -> t.types
    [] t.kind = "object" -> [i \in 1..Len(t.properties) |-> t.properties[i].type]
    [] t.kind = "array" -> <<t.elementType>>
    [] t.kind = "promise" -> <<t.type>>
    [] t.kind = "function" -> SignatureTrees(t.signatures, 1)
    [] OTHER -> <<>>

\* every node of a tree with its nesting depth (the root is at depth d)
RECURSIVE NodesAt(_, _)
NodesAt(t, d) ==
  {[node |-> t, depth |-> d]} \cup
  UNION {NodesAt(ChildTrees(t)[i], d + 1) : i \in 1..Len(ChildTrees(t))}

\* the number of properties summed over the object nodes of a tree
RECURSIVE PropertyTotal(_)
RECURSIVE PropertyTotalOf(_, _)
PropertyTotalOf(ts, i) ==
  IF i > Len(ts) THEN 0 ELSE PropertyTotal(ts[i]) + PropertyTotalOf(ts, i + 1)
PropertyTotal(t) ==
  (IF t.kind = "object" THEN Len(t.properties) ELSE 0) + PropertyTotalOf(ChildTrees(t), 1)

Built == pc = "built" /\ typeInfo.defined
ResultNodes == NodesAt(typeInfo.typeTree, 0)

(***************************************************************************)
(* C1.  getTypeTree ends after a number of calls bounded by its visited    *)
(* keys and its budgets, on every host type graph, cyclic ones included:   *)
(* a build never runs until the call stack is exhausted.                   *)
(***************************************************************************)
C1_BoundedByCycleBreak == Built => ~stats.overflow

(***************************************************************************)
(* C2.  On a self-referential object type the second occurrence of the     *)
(* type along a path of the returned tree is a basic leaf: no object node  *)
(* has an object node of the same rendered name below it.                  *)
(***************************************************************************)
C2_SecondOccurrenceIsLeaf ==
  Built =>
    \A n \in ResultNodes :
      n.node.kind = "object" =>
        \A m \in NodesAt(n.node, 0) :
          m.depth > 0 /\ m.node.typeName = n.node.typeName => m.node.kind = "basic"

(***************************************************************************)
(* C3.  The properties of all object nodes of the returned tree, own and   *)
(* index-signature properties together, number at most maxProperties.      *)
(***************************************************************************)
C3_TotalWithinMaxProperties ==
  Built => PropertyTotal(typeInfo.typeTree) <= options.maxProperties

(***************************************************************************)
(* C4.  No object node below the first nesting level of the returned tree  *)
(* has more than maxSubProperties properties, index-signature properties   *)
(* included.                                                               *)
(***************************************************************************)
C4_NestedWithinMaxSubProperties ==
  Built =>
    \A n \in ResultNodes :
      n.depth >= 1 /\ n.node.kind = "object" =>
        Len(n.node.properties) <= options.maxSubProperties

(***************************************************************************)
(* C5.  Every node of the returned tree at depth >= maxDepth is a basic    *)
(* leaf.                                                                   *)
(***************************************************************************)
C5_LeavesAtMaxDepth ==
  Built =>
    \A n \in ResultNodes : n.depth >= options.maxDepth => n.node.kind = "basic"

(***************************************************************************)
(* C6.  The members of every union node are ordered string, number,        *)
(* bigint, boolean, symbol, then every other non-nullish member, then      *)
(* null, then undefined; members of equal priority keep the relative order *)
(* of the host's member list; [undefined, string, number, null] comes out  *)
(* as [string, number, null, undefined].                                   *)
(***************************************************************************)
MemberPriority(m) ==
  IF m.kind = "basic" /\ OrderIndex(primitiveTypesOrder, m.typeName) # -1
  THEN OrderIndex(primitiveTypesOrder, m.typeName)
  ELSE IF m.kind = "basic" /\ OrderIndex(falsyTypesOrder, m.typeName) # -1
  THEN Len(primitiveTypesOrder) + 1 + OrderIndex(falsyTypesOrder, m.typeName)
  ELSE Len(primitiveTypesOrder)

\* the position of a member in the member list the host started with
HostPosition(union, name) ==
  LET members == HostGraph[union].types
  IN  IF \E k \in 1..Len(members) : members[k] = name
      THEN CHOOSE k \in 1..Len(members) : members[k] = name
      ELSE 0

MemberNames(u) == [i \in 1..Len(u.types) |-> u.types[i].typeName]

ExampleUnion == "string | number | null | undefined"

C6_UnionMembersOrdered ==
  Built =>
    \A n \in ResultNodes :
      n.node.kind = "union" =>
        LET u == n.node IN
        /\ \A i, j \in 1..Len(u.types) :
             i < j =>
               /\ MemberPriority(u.types[i]) <= MemberPriority(u.types[j])
               /\ ( /\ MemberPriority(u.types[i]) = MemberPriority(u.types[j])
                    /\ HostPosition(u.typeName, u.types[i].typeName) # 0
                    /\ HostPosition(u.typeName, u.types[j].typeName) # 0 )
                  => HostPosition(u.typeName, u.types[i].typeName)
                       < HostPosition(u.typeName, u.types[j].typeName)
        /\ (u.typeName = ExampleUnion /\ Len(u.types) = 4)
             => MemberNames(u) = <<"string", "number", "null", "undefined">>

\* the example union built whole
C6_Witness ==
  /\ Built
  /\ \E n \in ResultNodes :
       /\ n.node.kind = "union"
       /\ n.node.typeName = ExampleUnion
       /\ MemberNames(n.node) = <<"string", "number", "null", "undefined">>

(***************************************************************************)
(* C7.  Every union node of the returned tree has at most maxUnionMembers  *)
(* members.                                                                *)
(***************************************************************************)
C7_UnionWithinMaxMembers ==
  Built =>
    \A n \in ResultNodes :
      n.node.kind = "union" => Len(n.node.types) <= options.maxUnionMembers

(***************************************************************************)
(* The descriptor of a component whose type has a first parameter.         *)
(***************************************************************************)
HasParameter ==
  /\ typeInfo.defined
  /\ typeInfo.typeTree.kind = "function"
  /\ Len(typeInfo.typeTree.signatures) > 0
  /\ Len(typeInfo.typeTree.signatures[1].parameters) > 0

ParameterTree == typeInfo.typeTree.signatures[1].parameters[1].type
Transformed == pc \in {"transformed", "generated"}
KeysOf(entries) == {entries[i].key : i \in 1..Len(entries)}
ValueOf(entries, k) == (CHOOSE i \in 1..Len(entries) : entries[i].key = k)
ValueAt(entries, k) == entries[ValueOf(entries, k)].value

\* a rendered name that denotes null or undefined, alone or as a member of
\* the rendered union
DenotesNullish(name) ==
  \E n \in {"null", "undefined"} :
    \/ name = n
    \/ startsWith(name, n \o " | ")
    \/ includes(name, " | " \o n \o " | ")
    \/ (Len(name) > Len(n) + 3 /\ SubSeq(name, Len(name) - Len(n) - 2, Len(name)) = " | " \o n)

\* optional, as the optionality test is stated
StatedOptional(type) ==
  \/ /\ type.kind = "union"
     /\ \E i \in 1..Len(type.types) :
          type.types[i].kind = "basic" /\ type.types[i].typeName \in {"null", "undefined"}
  \/ type.kind = "basic" /\ DenotesNullish(type.typeName)

RECURSIVE MapMatches(_, _, _)
MapMatches(tree, entries, requiredOnly) ==
  LET want == SelectSeq(tree.properties,
                        LAMBDA p : ~(requiredOnly /\ StatedOptional(p.type)))
  IN  /\ Len(entries) = Len(want)
      /\ KeysOf(entries) = {want[i].name : i \in 1..Len(want)}
      /\ \A i \in 1..Len(want) :
           want[i].type.kind = "object" =>
             /\ ValueAt(entries, want[i].name).t = "object"
             /\ MapMatches(want[i].type, ValueAt(entries, want[i].name).entries,
                           requiredOnly)

ExampleObject ==
  [kind |-> "object", typeName |-> "Ext",
   properties |-> <<[name |-> "requiredProperty", type |-> Basic("string")],
                    [name |-> "optionalProperty",
                     type |-> [kind |-> "union", typeName |-> "string | undefined",
                               types |-> <<Basic("string"), Basic("undefined")>>]]>>]

(***************************************************************************)
(* C8.  For an object tree, processType(tree, false) has one key per       *)
(* property of the object and processType(tree, true) has exactly the keys *)
(* of the properties that are not optional; nested objects are filtered    *)
(* the same way; for {requiredProperty: string, optionalProperty?: string} *)
(* the maps are {requiredProperty: ""} and {requiredProperty: "",          *)
(* optionalProperty: ""}.                                                  *)
(***************************************************************************)
C8_KeysOfObjectTree ==
  (Transformed /\ HasParameter /\ ParameterTree.kind = "object") =>
    /\ MapMatches(ParameterTree, descriptor.props, FALSE)
    /\ MapMatches(ParameterTree, descriptor.required, TRUE)
    /\ ParameterTree = ExampleObject =>
         /\ descriptor.required = <<[key |-> "requiredProperty", value |-> VStr("")]>>
         /\ descriptor.props = <<[key |-> "requiredProperty", value |-> VStr("")],
                                 [key |-> "optionalProperty", value |-> VStr("")]>>

(***************************************************************************)
(* Index-signature names in the maps and in the snippets.                  *)
(***************************************************************************)
IndexSignatureNames == {"[key: string]", "[key: number]"}

RECURSIVE HasIndexKey(_)
HasIndexKey(value) ==
  IF value.t = "object"
  THEN \E i \in 1..Len(value.entries) :
         value.entries[i].key \in IndexSignatureNames \/ HasIndexKey(value.entries[i].value)
  ELSE IF value.t = "array"
       THEN \E i \in 1..Len(value.items) : HasIndexKey(value.items[i])
       ELSE FALSE

MentionsIndexKey(text) == \E k \in IndexSignatureNames : includes(text, k)

C10_EmptyForMalformedRoot ==
  pc = "transformed" =>
    /\ ~typeInfo.defined =>
         descriptor = [name |-> "", exportType |-> "undefined",
                       props |-> <<>>, required |-> <<>>]
    /\ (typeInfo.defined /\ ~HasParameter) =>
         /\ descriptor.props = <<>>
         /\ descriptor.required = <<>>
         /\ descriptor.name = typeInfo.name

C10_Witness ==
  /\ pc = "transformed"
  /\ typeInfo.defined
  /\ typeInfo.typeTree.kind = "function"
  /\ Len(typeInfo.typeTree.signatures) = 1
  /\ Len(typeInfo.typeTree.signatures[1].parameters) = 0
  /\ descriptor.name = "MyComponent"
  /\ descriptor.props = <<>>

(***************************************************************************)
(* Well-formed TypeTree values (src/unnamed/part_006:37-46).               *)
(***************************************************************************)
KindFields(kind) ==
  CASE kind \in {"union", "intersection"} -> {"kind", "typeName", "types"}
    [] kind = "object" -> {"kind", "typeName", "properties"}
    [] kind = "array" -> {"kind", "typeName", "elementType"}
    [] kind = "function" -> {"kind", "typeName", "signatures"}
    [] kind = "promise" -> {"kind", "typeName", "type"}
    [] kind = "enum" -> {"kind", "typeName", "member"}
    [] kind = "basic" -> {"kind", "typeName"}
    [] OTHER -> {}

\* one node has the fields of its kind, and its lists hold what they should
WellFormedNode(t) ==
  /\ "kind" \in DOMAIN t
  /\ DOMAIN t = KindFields(t.kind)
  /\ t.kind = "object" =>
       \A i \in 1..Len(t.properties) : DOMAIN t.properties[i] = {"name", "type"}
  /\ t.kind = "function" =>
       \A i \in 1..Len(t.signatures) :
         /\ DOMAIN t.signatures[i] = {"returnType", "parameters"}
         /\ \A j \in 1..Len(t.signatures[i].parameters) :
              DOMAIN t.signatures[i].parameters[j] = {"name", "type"}

BrokenRoot == "(props: WithBroken) => void"
Unrenderable == {id \in TypeIds : ~HostGraph[id].renders}

FreshTree(type, opts) ==
  IF impl = "index"
  THEN getTypeTree_index(type, 0,
         [visited |-> {}, count |-> 0, calls |-> 0, overflow |-> FALSE,
          unionTypes |-> [u \in UnionIds |-> HostGraph[u].types],
          sortedUnionCache |-> <<>>], opts).tree
  ELSE Build(type, opts).tree

(***************************************************************************)
(* C12.  A build returns the tree that the same type and the same budgets  *)
(* give on their own, whatever was built before it with whatever budgets:  *)
(* nothing one call wrote is read by a later call.                         *)
(***************************************************************************)
C12_BuildsAreIndependent ==
  Built => typeInfo.typeTree = FreshTree(root.type, options)

(***************************************************************************)
(* The defaults of the properties of the first parameter, as the props map *)
(* holds them.                                                             *)
(***************************************************************************)
ParameterProperties ==
  IF Transformed /\ HasParameter /\ ParameterTree.kind = "object"
  THEN {ParameterTree.properties[i] : i \in 1..Len(ParameterTree.properties)}
  ELSE {}

PropsDefault(p) == ValueAt(descriptor.props, p.name)

(***************************************************************************)
(* C13, as stated.  The default of a basic leaf is '' for string, null,    *)
(* unknown and any, 0 for number, false for boolean, '() => {}' for void   *)
(* and '' for every other name.                                            *)
(***************************************************************************)
C13_BasicDefaults ==
  \A p \in ParameterProperties :
    p.type.kind = "basic" =>
      PropsDefault(p) =
        CASE p.type.typeName = "number" -> VNum(0)
          [] p.type.typeName = "boolean" -> VBool(FALSE)
          [] p.type.typeName = "void" -> VStr("() => {}")
          [] OTHER -> VStr("")

(***************************************************************************)
(* C13, amended.  The names Number and Boolean of the wrapper types have   *)
(* the defaults of number and boolean; '' is the default of string,        *)
(* String, null, unknown, any and every name not listed.                   *)
(***************************************************************************)
C13_BasicDefaultsWithWrappers ==
  \A p \in ParameterProperties :
    p.type.kind = "basic" =>
      PropsDefault(p) =
        CASE p.type.typeName \in {"number", "Number"} -> VNum(0)
          [] p.type.typeName \in {"boolean", "Boolean"} -> VBool(FALSE)
          [] p.type.typeName = "void" -> VStr("() => {}")
          [] OTHER -> VStr("")

C13_Witness ==
  \E p \in ParameterProperties :
    /\ p.type = Basic("void")
    /\ PropsDefault(p) = VStr("() => {}")
    /\ \E q \in ParameterProperties : q.type = Basic("number") /\ PropsDefault(q) = VNum(0)

(***************************************************************************)
(* C14.  The default of an enum node is its member field, the label        *)
(* '<EnumName>.<MemberName>'.                                              *)
(***************************************************************************)
C14_EnumDefaultIsMember ==
  \A p \in ParameterProperties :
    p.type.kind = "enum" => PropsDefault(p) = VStr(p.type.member)

(***************************************************************************)
(* C15.  The default of a union node is the default of its first member,   *)
(* in tree order, that is not a basic leaf named null or undefined; it is  *)
(* '' when every member is such a leaf and when there is no member.        *)
(***************************************************************************)
NullishLeaves == {Basic("null"), Basic("undefined")}

C15_UnionDefaultIsFirstLive ==
  \A p \in ParameterProperties :
    p.type.kind = "union" =>
      LET members == p.type.types
          live == {i \in 1..Len(members) : members[i] \notin NullishLeaves}
      IN  /\ live = {} => PropsDefault(p) = VStr("")
          /\ \A i \in live :
               (\A j \in 1..(i - 1) : j \notin live) =>
                 PropsDefault(p) = getDefaultValue(members[i], FALSE)

\* a union whose first member is nullish and whose second has a default
\* other than ''
C15_Witness ==
  \E p \in ParameterProperties :
    /\ p.type.kind = "union"
    /\ Len(p.type.types) = 2
    /\ p.type.types[1] = Basic("undefined")
    /\ p.type.types[2] = Basic("number")
    /\ PropsDefault(p) = VNum(0)

(***************************************************************************)
(* C16.  The default of an intersection node is the shallow merge, in      *)
(* member order and with later members overwriting earlier ones, of the    *)
(* defaults of the members whose default is a map; a member whose default  *)
(* is a string, a number, a boolean, the placeholder or a list adds no     *)
(* key.                                                                    *)
(***************************************************************************)
RECURSIVE MergeOfMaps(_, _, _)
MergeOfMaps(types, i, merged) ==
  IF i > Len(types) THEN merged
  ELSE LET default == getDefaultValue(types[i], FALSE)
       IN  MergeOfMaps(types, i + 1,
                       IF default.t = "object" THEN Spread(merged, default.entries, 1)
                       ELSE merged)

C16_IntersectionMergesMaps ==
  \A p \in ParameterProperties :
    p.type.kind = "intersection" =>
      PropsDefault(p) = VObj(MergeOfMaps(p.type.types, 1, <<>>))

(***************************************************************************)
(* C17.  The required map leaves out every property whose type is a union  *)
(* node with a basic member named null or undefined, and every property    *)
(* whose type is a basic leaf whose name denotes null or undefined, a leaf *)
(* cut at a depth or a cycle and named 'T | undefined' included.           *)
(***************************************************************************)
C17_OptionalLeftOut ==
  \A p \in ParameterProperties :
    StatedOptional(p.type) => p.name \notin KeysOf(descriptor.required)

\* an optional property cut to a leaf 'T | undefined', and one kept as a union
C17_Witness ==
  /\ \E p \in ParameterProperties :
       /\ p.type.kind = "basic"
       /\ p.type.typeName = "Ext[] | undefined"
       /\ p.name \in KeysOf(descriptor.props)
       /\ p.name \notin KeysOf(descriptor.required)
  /\ \E p \in ParameterProperties : ~StatedOptional(p.type)

(***************************************************************************)
(* C18.  No object node of a built tree has a property named 'children',   *)
(* at any nesting level, and neither map of the component descriptor has   *)
(* the key 'children'.                                                     *)
(***************************************************************************)
HasChildrenProperty(t) ==
  /\ t.kind = "object"
  /\ \E i \in 1..Len(t.properties) : t.properties[i].name \in excludedProps

C18_NoChildrenProperty ==
  /\ Built => \A n \in ResultNodes : ~HasChildrenProperty(n.node)
  /\ Transformed =>
       /\ "children" \notin KeysOf(descriptor.props)
       /\ "children" \notin KeysOf(descriptor.required)

(***************************************************************************)
(* C19.  With cacheSize >= 1 the plugin's file cache never holds more than *)
(* cacheSize entries, whatever transform calls were made, and a setCache   *)
(* on a full cache removes the entry that was added to the Map first and   *)
(* no other.                                                               *)
(***************************************************************************)
Oldest(c) == CHOOSE i \in 1..Len(c) : \A j \in 1..Len(c) : c[i].since <= c[j].since
Stamps(c) == {c[i].since : i \in 1..Len(c)}

EvictsOldest ==
  (cacheSize >= 1 /\ Len(cache) >= cacheSize /\ inserted' # inserted) =>
    /\ cache[Oldest(cache)].since \notin Stamps(cache')
    /\ Stamps(cache) \ {cache[Oldest(cache)].since} \subseteq Stamps(cache')

NamedProperties(t) ==
  Cardinality({i \in 1..Len(t.properties) : t.properties[i].name \notin IndexSignatureNames})

\* the nodes in the order getTypeTree makes them, with the counter a single
\* shared context would hold when each object node is reached
RECURSIVE SharedCount(_, _, _)
RECURSIVE SharedCountAll(_, _, _, _, _)
SharedCountAll(t, i, count, within, maxProperties) ==
  IF i > Len(ChildTrees(t)) THEN [count |-> count, within |-> within]
  ELSE LET r == SharedCount(ChildTrees(t)[i], count, maxProperties)
           \* an index signature is counted after its type is built
           after == IF t.kind = "object" /\ t.properties[i].name \in IndexSignatureNames
                    THEN r.count + 1 ELSE r.count
       IN  IF within /\ r.within
           THEN SharedCountAll(t, i + 1, after, TRUE, maxProperties)
           ELSE [count |-> after, within |-> FALSE]
SharedCount(t, count, maxProperties) ==
  IF t.kind = "object"
  THEN SharedCountAll(t, 1, count + NamedProperties(t),
                      NamedProperties(t) <= Max(0, maxProperties - count), maxProperties)
  ELSE SharedCountAll(t, 1, count, TRUE, maxProperties)

C20_CounterIsShared ==
  Built => SharedCount(typeInfo.typeTree, 0, options.maxProperties).within

(***************************************************************************)
(* C21.  An object-like type reached when the property budget is used up   *)
(* (propertiesCount >= maxProperties) still becomes a node of kind object, *)
(* with the properties that fit, possibly none: a leaf below maxDepth that *)
(* is named after an object-like host type stands for a type that is an    *)
(* object node elsewhere in the tree (a repeated occurrence), never for a  *)
(* type the budget alone turned into a leaf.                               *)
(***************************************************************************)
NamesObjectLike(t) ==
  /\ t.typeName \in TypeIds
  /\ T(t.typeName).renders
  /\ Branch(t.typeName, FALSE) = "object"

C21_ObjectKeptWithoutBudget ==
  Built =>
    \A n \in ResultNodes :
      (n.node.kind = "basic" /\ NamesObjectLike(n.node) /\ n.depth < options.maxDepth) =>
        \E m \in ResultNodes : m.node.kind = "object" /\ m.node.typeName = n.node.typeName

(***************************************************************************)
(* C22.  getTypeTree classifies a type by the first test that matches, in  *)
(* the order: depth limit or primitive, visited, enum member, union,       *)
(* intersection, promise, call signatures, array, object, basic.  So every *)
(* node that is not a leaf has the kind of the first of these tests its    *)
(* type passes, an enum member is an enum leaf '<EnumName>.<MemberName>',  *)
(* and a type with call signatures that is also an array is a function.    *)
(***************************************************************************)
ClaimedKind(id) ==
  LET t == T(id)
  IN  IF "EnumLike" \in t.flags /\ t.symbolParent # "" THEN "enum"
      ELSE IF "Union" \in t.flags THEN "union"
      ELSE IF "Intersection" \in t.flags THEN "intersection"
      ELSE IF startsWith(typeToString(id), "Promise<") THEN "promise"
      ELSE IF Len(T(t.apparent).callSignatures) > 0 THEN "function"
      ELSE IF t.isArray THEN "array"
      ELSE IF IsObjectLike(id) THEN "object"
      ELSE "basic"

C22_FirstMatchingTest ==
  Built =>
    /\ \A n \in ResultNodes :
         (n.node.typeName \in TypeIds /\ T(n.node.typeName).renders /\ n.node.kind # "basic") =>
           /\ n.node.kind = ClaimedKind(n.node.typeName)
           /\ n.node.kind = "enum" =>
                n.node.member = T(n.node.typeName).symbolParent \o "."
                                  \o T(n.node.typeName).symbolName
    \* the root is not a repeated occurrence
    /\ (root.found /\ options.maxDepth > 0 /\ ClaimedKind(root.type) = "enum") =>
         typeInfo.typeTree.kind = "enum"

(***************************************************************************)
(* C23.  A union with more members than maxUnionMembers is sorted by the   *)
(* union ordering first and cut afterwards: the members of a union node    *)
(* are the first maxUnionMembers of the host's members in sorted order,    *)
(* wherever they stand in the host's member list.                          *)
(***************************************************************************)
C23_SortedThenCut ==
  Built =>
    \A n \in ResultNodes :
      (n.node.kind = "union" /\ n.node.typeName \in UnionIds) =>
        MemberNames(n.node) =
          Slice(SortTypes(HostGraph[n.node.typeName].types), options.maxUnionMembers)

(***************************************************************************)
(* C24.  An array type without a type argument becomes an array node whose *)
(* elementType is the basic leaf 'any', and a promise type without a type  *)
(* argument becomes a promise node around the basic leaf 'void'.           *)
(***************************************************************************)
NoArgument(id) == id \in TypeIds /\ T(id).renders /\ T(id).typeArguments = <<>>

C24_MissingArgumentLeaves ==
  Built =>
    /\ \A n \in ResultNodes :
         /\ (n.node.kind = "array" /\ NoArgument(n.node.typeName)) =>
              n.node.elementType = Basic("any")
         /\ (n.node.kind = "promise" /\ NoArgument(n.node.typeName)) =>
              n.node.type = Basic("void")
    \* the root is classified whenever the depth limit lets it
    /\ (root.found /\ options.maxDepth > 0 /\ NoArgument(root.type)) =>
         /\ ClaimedKind(root.type) = "array" => typeInfo.typeTree.kind = "array"
         /\ ClaimedKind(root.type) = "promise" => typeInfo.typeTree.kind = "promise"

(***************************************************************************)
(* C25.  An object node carries its index signatures as properties named   *)
(* '[key: string]' and '[key: number]', after the own properties and in    *)
(* that order, each appended only while property budget remains (so never  *)
(* at a position beyond maxProperties); {[key: string]: number} becomes an *)
(* object with the single property '[key: string]' of basic type number.   *)
(***************************************************************************)
IndexedExample == "Indexed"

IndexSignaturesLast(t) ==
  \A i, j \in 1..Len(t.properties) :
    (i < j /\ t.properties[i].name \in IndexSignatureNames) =>
      /\ t.properties[i].name = "[key: string]"
      /\ t.properties[j].name = "[key: number]"

C25_IndexSignatureProperties ==
  Built =>
    \A n \in ResultNodes :
      n.node.kind = "object" =>
        /\ IndexSignaturesLast(n.node)
        /\ \A i \in 1..Len(n.node.properties) :
             n.node.properties[i].name \in IndexSignatureNames => i <= options.maxProperties
        /\ (n.node.typeName = IndexedExample /\ options.maxProperties > 0) =>
             n.node.properties = <<[name |-> "[key: string]", type |-> Basic("number")]>>

(***************************************************************************)
(* C26.  A build only queries the host: the step that runs it leaves the   *)
(* host's types and the member list of every union type as they were       *)
(* before the call, in content and in order.                               *)
(***************************************************************************)
BuildStep == pc = "idle" /\ pc' = "built"

C26_HostNotModified ==
  [][BuildStep => (host' = host /\ unionTypes' = unionTypes)]_vars

(***************************************************************************)
(* C27.  For a .tsx file that is no .stories.tsx file: a transform call    *)
(* that finds the path cached with the file's present mtimeMs returns the  *)
(* source as it is, starts no analysis and leaves the cache alone; any     *)
(* other call runs the analysis, and when it ends {mtimeMs, docs} is       *)
(* stored under the path and the source comes back with the injection of   *)
(* the docs appended.                                                      *)
(***************************************************************************)
CachedWith(c, path, mtimeMs) ==
  \E i \in 1..Len(c) : c[i].key = path /\ c[i].value.mtimeMs = mtimeMs

\* a call that ended without waiting for an analysis and did not return null
EndedAtOnce == pending' = pending /\ returned' # returned /\ returned'.code # NullCode
\* the calls an analysis was started for, and those whose analysis ended
StartedCalls == pending' \ pending
EndedCalls == pending \ pending'

HitReturnsSource ==
  EndedAtOnce =>
    /\ CachedWith(cache, returned'.path, returned'.mtimeMs)
    /\ returned'.code \in Sources
    /\ UNCHANGED <<cache, fileContents, fileVersions, inserted>>

MissStartsAnalysis ==
  \A call \in StartedCalls :
    /\ ~CachedWith(cache, call.path, call.mtimeMs)
    /\ endsWith(call.path, ".tsx") /\ ~endsWith(call.path, ".stories.tsx")

Stores(call) ==
  \E i \in 1..Len(cache') :
    /\ cache'[i].key = call.path
    /\ cache'[i].value.mtimeMs = call.mtimeMs
    /\ returned' = [path |-> call.path, mtimeMs |-> call.mtimeMs,
                    code |-> Injected(call.source, cache'[i].value.docs)]

\* the catch of transform: generateDocs failed, the source comes back as it is
GivesUp(call) ==
  /\ cache' = cache
  /\ returned' = [path |-> call.path, mtimeMs |-> call.mtimeMs, code |-> call.source]

C27_RegeneratesUnlessCached ==
  [][/\ HitReturnsSource
     /\ MissStartsAnalysis
     /\ \A call \in EndedCalls : Stores(call)]_vars

\* the same, with the call whose analysis fails returning the source as it
\* is and storing nothing
C27_RegeneratesUnlessCachedOrFailed ==
  [][/\ HitReturnsSource
     /\ MissStartsAnalysis
     /\ \A call \in EndedCalls : Stores(call) \/ GivesUp(call)]_vars

\* a file analysed a second time because its mtimeMs had changed, stored
\* and returned with the injection
C27_Witness ==
  \E i \in 1..Len(cache) :
    /\ cache[i].value.mtimeMs = 2
    /\ MapGet(fileVersions, cache[i].key, 0) = 2
    /\ returned = [path |-> cache[i].key, mtimeMs |-> 2,
                   code |-> Injected("export const A = () => null", cache[i].value.docs)]

(***************************************************************************)
(* C28.  The required map is contained in the props map: every key of the  *)
(* required map is a key of the props map, a map or a one-element list     *)
(* under a required key is contained in the value the props map has under  *)
(* that key, and any other value is equal to it.                           *)
(***************************************************************************)
RECURSIVE ContainedIn(_, _)
ContainedIn(r, p) ==
  IF r.t = "object" /\ p.t = "object"
  THEN \A k \in KeysOf(r.entries) :
         /\ k \in KeysOf(p.entries)
         /\ ContainedIn(ValueAt(r.entries, k), ValueAt(p.entries, k))
  ELSE IF r.t = "array" /\ p.t = "array"
  THEN /\ Len(r.items) = Len(p.items)
       /\ \A i \in 1..Len(r.items) : ContainedIn(r.items[i], p.items[i])
  ELSE r = p

C28_RequiredWithinProps ==
  Transformed => ContainedIn(VObj(descriptor.required), VObj(descriptor.props))

\* the keys a member of an intersection brings into the merged map
MemberKeys(m, requiredOnly) == KeysOf(SpreadEntries(getDefaultValue(m, requiredOnly)))

\* no key that one member of an intersection requires is declared optional
\* by a later member
NoRequiredKeyOptionalLater(t) ==
  \A n \in NodesAt(t, 0) :
    n.node.kind = "intersection" =>
      \A i, j \in 1..Len(n.node.types) :
        i < j =>
          MemberKeys(n.node.types[i], TRUE)
            \cap (MemberKeys(n.node.types[j], FALSE) \ MemberKeys(n.node.types[j], TRUE)) = {}

\* the same, for the trees in which a later member of an intersection does
\* not make optional a key an earlier member requires
C28_RequiredWithinPropsUnlessOverridden ==
  (Transformed /\ HasParameter /\ NoRequiredKeyOptionalLater(ParameterTree)) =>
    ContainedIn(VObj(descriptor.required), VObj(descriptor.props))

\* an intersection whose required map is a proper part of its props map
C28_Witness ==
  /\ Transformed /\ HasParameter
  /\ ParameterTree.kind = "intersection"
  /\ NoRequiredKeyOptionalLater(ParameterTree)
  /\ KeysOf(descriptor.required) # {}
  /\ KeysOf(descriptor.required) # KeysOf(descriptor.props)

(***************************************************************************)
(* C29.  Skipping the reserved property 'children' does not use up         *)
(* property budget: an object node emits min(allowed count, number of      *)
(* non-reserved own properties) own properties in declaration order, and   *)
(* after the node is processed the counter has grown by exactly the number *)
(* of properties emitted there.  Stated for the object at the root of a    *)
(* first build, where the counter starts at 0.                             *)
(***************************************************************************)
RECURSIVE NonReserved(_, _)
NonReserved(props, i) ==
  IF i > Len(props) THEN <<>>
  ELSE IF props[i].name \in excludedProps THEN NonReserved(props, i + 1)
  ELSE <<props[i].name>> \o NonReserved(props, i + 1)

OwnNames(t) ==
  LET named == {i \in 1..Len(t.properties) : t.properties[i].name \notin IndexSignatureNames}
  IN  [i \in 1..Cardinality(named) |-> t.properties[i].name]

RootObject ==
  /\ Built /\ builds = 1
  /\ root.found
  /\ typeInfo.typeTree.kind = "object"
  /\ typeInfo.typeTree.typeName = root.type

\* the emitted own properties are the first min(allowed, non-reserved) ones
C29_EmitsAllowedNonReserved ==
  RootObject =>
    LET names == NonReserved(T(T(root.type).apparent).properties, 1)
    IN  OwnNames(typeInfo.typeTree) = Slice(names, Min(options.maxProperties, Len(names)))

\* the counter grows by the number of properties emitted
C29_CounterGrowsByEmitted ==
  RootObject =>
    LET public == PublicProperties(root.type, 0, 0, options)
        own == ObjectCalls(public, 1, Len(public), <<>>,
                           IF impl = "getTypes" THEN excludedProps ELSE {})
    IN  own.count = Len(own.calls)

C29_ChildrenUsesNoBudget ==
  C29_EmitsAllowedNonReserved /\ C29_CounterGrowsByEmitted

(***************************************************************************)
(* C30.  With requiredOnly = true a property is kept whenever its type is  *)
(* neither a union with a null/undefined basic member nor a nullish basic  *)
(* leaf; in particular a property whose type is a basic leaf with a        *)
(* non-nullish rendered name that merely contains the letters 'null' or    *)
(* 'undefined' (e.g. 'Nullable') is kept in the required map.              *)
(***************************************************************************)
DeclaredOptional(type) ==
  \/ type.kind = "union" /\ \E i \in 1..Len(type.types) : IsNullishLeaf(type.types[i])
  \/ IsNullishLeaf(type)

C30_NonNullishKept ==
  (Transformed /\ HasParameter /\ ParameterTree.kind = "object") =>
    \A i \in 1..Len(ParameterTree.properties) :
      ~DeclaredOptional(ParameterTree.properties[i].type) =>
        ParameterTree.properties[i].name \in KeysOf(descriptor.required)

====
